---- MODULE Spec2Model ----
(***************************************************************************)
(* Model of the video processing service: the upload endpoint of main.py   *)
(* (upload_video), the status endpoint (get_video_status) and the Celery   *)
(* task of tasks.py (process_video) with its retry call.                   *)
(*                                                                         *)
(* The record store is the MongoDB collection `videos`; the job queue is   *)
(* the Celery broker.  The Celery application is configured without        *)
(* task_acks_late (tasks.py:30-36), so a worker acknowledges a message     *)
(* when it starts executing it.  self.retry(exc, countdown, max_retries)   *)
(* publishes the same task with retries + 1 and an ETA of now + countdown  *)
(* unless retries + 1 > max_retries, in which case it raises exc.          *)
(***************************************************************************)
EXTENDS Integers, FiniteSets, Sequences, TLC

\* ---- bounds of the model ------------------------------------------------
NumJobs == 1
NumWorkers == 2
TickStep == 60
MaxTime == 180
MaxDurationTenths == 37259

\* ---- program constants --------------------------------------------------
max_retries == 3
countdown == 60

Jobs == 1..NumJobs
Workers == 1..NumWorkers

\* durations ffprobe may report, in tenths of a second (120.0 s, 3725.9 s)
Durations == {1200, 37259}

VARIABLES
  now,        \* the clock read by datetime.utcnow(), in seconds
  rec,        \* videos_collection: the documents, by the _id of their job
  upPc,       \* position of upload_video for each job
  queue,      \* messages held by the broker
  wk,         \* each worker's execution of process_video
  execs,      \* history: executions of process_video started, per job
  durOk,      \* history: some execution's duration extraction returned, per job
  outcome,    \* history: how the last ended execution of the job ended
  lastErr,    \* history: str(e) of the last exception caught, per job
  crashed,    \* history: a worker died while holding the job in processing
  taskIdSaw,  \* history: the task_id update found a status written by a worker
  fmtIn,      \* a duration_seconds handed to the HH:MM:SS conversion (tenths of a second)
  fmtOut      \* the duration_str it gave, "none" before the conversion

vars == <<now, rec, upPc, queue, wk, execs, durOk, outcome, lastErr, crashed,
          taskIdSaw, fmtIn, fmtOut>>

\* ---- the record store ---------------------------------------------------
None == "None"
Absent == "absent"

\* mutant: the initial document carries an (empty) error_message key
InitialDoc_WithError ==
  [status |-> "pending", duration |-> None, thumbnail_url |-> None,
   thumbnail_filename |-> Absent, processed_time |-> Absent,
   error_message |-> "", task_id |-> Absent]

\* video_doc of upload_video; the keys written only later are Absent
InitialDoc ==
  [status |-> "pending", duration |-> None, thumbnail_url |-> None,
   thumbnail_filename |-> Absent, processed_time |-> Absent,
   error_message |-> Absent, task_id |-> Absent]

\* find_one({"_id": j}) finds a document
HasRecord(j) == j \in DOMAIN rec

\* get_video_status: the status of the document, or 404
GetVideoStatus(j) == IF HasRecord(j) THEN rec[j].status ELSE "404"

\* insert_one(doc) under the new _id j
InsertOne(coll, j, doc) == coll @@ (j :> doc)

\* update_one({"_id": j}, {"$set": upd}): no match is not an error, it writes nothing
UpdateOne(coll, j, upd) ==
  IF j \notin DOMAIN coll THEN coll
  ELSE [coll EXCEPT ![j] =
          [f \in DOMAIN coll[j] |-> IF f \in DOMAIN upd THEN upd[f] ELSE coll[j][f]]]

\* ---- get_video_duration: the HH:MM:SS string ----------------------------
Pad2(n) == IF n < 10 THEN "0" \o ToString(n) ELSE ToString(n)

\* mutant: the seconds field is rounded to the nearest second
DurationStr_Rounds(d) ==
  LET hours == d \div 36000
      minutes == (d % 36000) \div 600
      seconds == ((d % 600) + 5) \div 10
  IN Pad2(hours) \o ":" \o Pad2(minutes) \o ":" \o Pad2(seconds)

DurationStr(d) ==
  LET hours == d \div 36000
      minutes == (d % 36000) \div 600
      seconds == (d % 600) \div 10
  IN Pad2(hours) \o ":" \o Pad2(minutes) \o ":" \o Pad2(seconds)

\* datetime.utcnow().isoformat(): the clock as a string
IsoFormat(t) == ToString(t)

ThumbnailFilename(j) == "thumb_" \o ToString(j) \o ".jpg"
TaskId(j) == "task_" \o ToString(j)

DurationError == "Failed to extract duration"
ThumbnailError == "Failed to generate thumbnail"

\* ---- the $set documents of the four updates -----------------------------
\* mutant: a started attempt re-arms the record instead of marking it
ProcessingUpdate_Rearm == [status |-> "pending"]

ProcessingUpdate == [status |-> "processing"]

\* mutant: the done write forgets the thumbnail
DoneUpdate_NoThumbnail(j, d, t) ==
  [status |-> "done", duration |-> DurationStr(d), processed_time |-> t]

\* mutant: the done write leaves processed_time as the failed attempt set it
DoneUpdate_NoTime(j, d, t) ==
  [status |-> "done", duration |-> DurationStr(d),
   thumbnail_filename |-> ThumbnailFilename(j)]

\* mutant: the done write clears the error of the earlier attempt
DoneUpdate_ClearsError(j, d, t) ==
  [status |-> "done", duration |-> DurationStr(d),
   thumbnail_filename |-> ThumbnailFilename(j), processed_time |-> t,
   error_message |-> None]

DoneUpdate(j, d, t) ==
  [status |-> "done", duration |-> DurationStr(d),
   thumbnail_filename |-> ThumbnailFilename(j), processed_time |-> t]

\* mutant: the failure write records the error but not the status
FailedUpdate_NoStatus(e, t) == [error_message |-> e, processed_time |-> t]

\* mutant: the failure write records the status but not the error
FailedUpdate_NoMessage(e, t) == [status |-> "failed", processed_time |-> t]

FailedUpdate(e, t) ==
  [status |-> "failed", error_message |-> e, processed_time |-> t]

\* mutant: the task_id is saved by writing the whole initial document back
TaskIdUpdate_WholeDoc(j) ==
  [status |-> "pending", duration |-> None, thumbnail_url |-> None, task_id |-> TaskId(j)]

TaskIdUpdate(j) == [task_id |-> TaskId(j)]

\* ---- workers ------------------------------------------------------------
\* dur: duration_seconds of this execution (tenths of a second), -1 before it
\* is extracted; ss: the -ss argument generate_thumbnail was invoked with
\* (milliseconds), -1 while it was not invoked
IdleWorker ==
  [pc |-> "idle", job |-> 0, retries |-> 0, dur |-> -1, ss |-> -1,
   thumb |-> FALSE, exc |-> "none"]

Executing(j) == \E w \in Workers : wk[w].pc # "idle" /\ wk[w].job = j
Queued(j) == \E m \in queue : m.job = j

InitPipeline ==
  /\ now = 0
  /\ rec = <<>>
  /\ upPc = [j \in Jobs |-> "idle"]
  /\ queue = {}
  /\ wk = [w \in Workers |-> IdleWorker]
  /\ execs = [j \in Jobs |-> 0]
  /\ durOk = [j \in Jobs |-> FALSE]
  /\ outcome = [j \in Jobs |-> "none"]
  /\ lastErr = [j \in Jobs |-> "none"]
  /\ crashed = [j \in Jobs |-> FALSE]
  /\ taskIdSaw = [j \in Jobs |-> FALSE]

Init ==
  /\ InitPipeline
  /\ fmtIn = 0
  /\ fmtOut = "none"

\* time passes; the clock is advanced while some message waits for its ETA
\* (at other moments nothing the program does depends on the time that passes)
Tick ==
  /\ now < MaxTime
  /\ \E m \in queue : m.eta > now
  /\ now' = now + TickStep
  /\ UNCHANGED <<rec, upPc, queue, wk, execs, durOk, outcome, lastErr, crashed, taskIdSaw, fmtIn, fmtOut>>

\* ---- upload_video -------------------------------------------------------
\* insert_one(video_doc); ids are handed out in order
UploadInsert(j) ==
  /\ upPc[j] = "idle"
  /\ \A i \in Jobs : i < j => upPc[i] # "idle"
  /\ rec' = InsertOne(rec, j, InitialDoc)
  /\ upPc' = [upPc EXCEPT ![j] = "inserted"]
  /\ UNCHANGED <<now, queue, wk, execs, durOk, outcome, lastErr, crashed, taskIdSaw, fmtIn, fmtOut>>

\* mutant: the job is sent before the document is inserted
UploadDelay_BeforeInsert(j) ==
  /\ upPc[j] = "idle"
  /\ queue' = queue \cup {[job |-> j, retries |-> 0, eta |-> now]}
  /\ upPc' = [upPc EXCEPT ![j] = "enqueued"]
  /\ UNCHANGED <<now, rec, wk, execs, durOk, outcome, lastErr, crashed, taskIdSaw, fmtIn, fmtOut>>

\* process_video.delay(video_id, file_path, unique_filename)
UploadDelay(j) ==
  /\ upPc[j] = "inserted"
  /\ queue' = queue \cup {[job |-> j, retries |-> 0, eta |-> now]}
  /\ upPc' = [upPc EXCEPT ![j] = "enqueued"]
  /\ UNCHANGED <<now, rec, wk, execs, durOk, outcome, lastErr, crashed, taskIdSaw, fmtIn, fmtOut>>

\* update_one({"_id": inserted_id}, {"$set": {"task_id": task.id}})
UploadSetTaskId(j) ==
  /\ upPc[j] = "enqueued"
  /\ rec' = UpdateOne(rec, j, TaskIdUpdate(j))
  /\ upPc' = [upPc EXCEPT ![j] = "returned"]
  /\ taskIdSaw' = [taskIdSaw EXCEPT ![j] = HasRecord(j) /\ rec[j].status # "pending"]
  /\ UNCHANGED <<now, queue, wk, execs, durOk, outcome, lastErr, crashed, fmtIn, fmtOut>>

\* ---- process_video ------------------------------------------------------
\* mutant: the message stays with the broker while the task runs
Ack_Keep(q, m) == q

\* the broker's view after a worker took message m (acknowledged at start)
Ack(q, m) == q \ {m}

\* a worker takes a message whose ETA has come and starts the task
Start(w) ==
  /\ wk[w].pc = "idle"
  /\ \E m \in queue :
       /\ m.eta <= now
       /\ queue' = Ack(queue, m)
       /\ wk' = [wk EXCEPT ![w] = [pc |-> "set_processing", job |-> m.job,
                                   retries |-> m.retries, dur |-> -1, ss |-> -1,
                                   thumb |-> FALSE, exc |-> "none"]]
       /\ execs' = [execs EXCEPT ![m.job] = @ + 1]
  /\ UNCHANGED <<now, rec, upPc, durOk, outcome, lastErr, crashed, taskIdSaw, fmtIn, fmtOut>>

\* update_one(..., {"$set": {"status": "processing"}})
SetProcessing(w) ==
  /\ wk[w].pc = "set_processing"
  /\ rec' = UpdateOne(rec, wk[w].job, ProcessingUpdate)
  /\ wk' = [wk EXCEPT ![w].pc = "duration"]
  /\ UNCHANGED <<now, upPc, queue, execs, durOk, outcome, lastErr, crashed, taskIdSaw, fmtIn, fmtOut>>

\* get_video_duration(video_path): returns a duration or raises
GetDuration(w) ==
  /\ wk[w].pc = "duration"
  /\ \/ \E d \in Durations :
          /\ wk' = [wk EXCEPT ![w].pc = "thumbnail", ![w].dur = d]
          /\ durOk' = [durOk EXCEPT ![wk[w].job] = TRUE]
     \/ /\ wk' = [wk EXCEPT ![w].pc = "except", ![w].exc = DurationError]
        /\ UNCHANGED durOk
  /\ UNCHANGED <<now, rec, upPc, queue, execs, outcome, lastErr, crashed, taskIdSaw, fmtIn, fmtOut>>

\* mutant: the thumbnail is taken at the full duration
ThumbnailTime_Whole(d) == d * 100

\* thumbnail_time = duration_seconds * 0.1, from tenths of a second to milliseconds
ThumbnailTime(d) == d * 10

\* generate_thumbnail(video_path, thumbnail_path, duration_seconds)
GenerateThumbnail(w) ==
  /\ wk[w].pc = "thumbnail"
  /\ \/ wk' = [wk EXCEPT ![w].pc = "write_done", ![w].thumb = TRUE,
                          ![w].ss = ThumbnailTime(wk[w].dur)]
     \/ wk' = [wk EXCEPT ![w].pc = "except", ![w].exc = ThumbnailError,
                          ![w].ss = ThumbnailTime(wk[w].dur)]
  /\ UNCHANGED <<now, rec, upPc, queue, execs, durOk, outcome, lastErr, crashed, taskIdSaw, fmtIn, fmtOut>>

\* update_one(..., {"$set": update_data}); return
WriteDone(w) ==
  /\ wk[w].pc = "write_done"
  /\ rec' = UpdateOne(rec, wk[w].job, DoneUpdate(wk[w].job, wk[w].dur, IsoFormat(now)))
  /\ outcome' = [outcome EXCEPT ![wk[w].job] = "succeeded"]
  /\ wk' = [wk EXCEPT ![w] = IdleWorker]
  /\ UNCHANGED <<now, upPc, queue, execs, durOk, lastErr, crashed, taskIdSaw, fmtIn, fmtOut>>

\* except Exception as e: update_one(..., status failed, error_message, processed_time)
WriteFailed(w) ==
  /\ wk[w].pc = "except"
  /\ rec' = UpdateOne(rec, wk[w].job, FailedUpdate(wk[w].exc, IsoFormat(now)))
  /\ lastErr' = [lastErr EXCEPT ![wk[w].job] = wk[w].exc]
  /\ wk' = [wk EXCEPT ![w].pc = "retry"]
  /\ UNCHANGED <<now, upPc, queue, execs, durOk, outcome, crashed, taskIdSaw, fmtIn, fmtOut>>

\* mutant: max_retries read as the total number of executions
RetriesExhausted_Total(retries) == retries + 1 >= max_retries

\* Task.retry: the limit test on request.retries
RetriesExhausted(retries) == retries + 1 > max_retries

\* mutant: the delay grows with the number of retries already made
RetryEta_Growing(t, retries) == t + countdown * (retries + 1)

\* Task.retry: the ETA of the redelivery, countdown seconds from now
RetryEta(t, retries) == t + countdown

\* raise self.retry(exc=e, countdown=60, max_retries=3)
Retry(w) ==
  /\ wk[w].pc = "retry"
  /\ IF RetriesExhausted(wk[w].retries)
       THEN /\ UNCHANGED queue
            /\ outcome' = [outcome EXCEPT ![wk[w].job] = "exhausted"]
       ELSE /\ queue' = queue \cup {[job |-> wk[w].job, retries |-> wk[w].retries + 1,
                                     eta |-> RetryEta(now, wk[w].retries)]}
            /\ outcome' = [outcome EXCEPT ![wk[w].job] = "retry"]
  /\ wk' = [wk EXCEPT ![w] = IdleWorker]
  /\ UNCHANGED <<now, rec, upPc, execs, durOk, lastErr, crashed, taskIdSaw, fmtIn, fmtOut>>

\* mutant: the exception of a failed job ends the worker's loop
Retry_WorkerStops(w) ==
  /\ wk[w].pc = "retry"
  /\ IF RetriesExhausted(wk[w].retries)
       THEN /\ UNCHANGED queue
            /\ outcome' = [outcome EXCEPT ![wk[w].job] = "exhausted"]
       ELSE /\ queue' = queue \cup {[job |-> wk[w].job, retries |-> wk[w].retries + 1,
                                     eta |-> RetryEta(now, wk[w].retries)]}
            /\ outcome' = [outcome EXCEPT ![wk[w].job] = "retry"]
  /\ wk' = [wk EXCEPT ![w] = [IdleWorker EXCEPT !.pc = "stopped"]]
  /\ UNCHANGED <<now, rec, upPc, execs, durOk, lastErr, crashed, taskIdSaw, fmtIn, fmtOut>>

\* a failed execution ends by raising (Retry or the exception); the worker
\* goes on to its next message
EndFailed(w) == Retry(w)

Next ==
  \/ Tick
  \/ \E j \in Jobs : UploadInsert(j)
  \/ \E j \in Jobs : UploadDelay(j)
  \/ \E j \in Jobs : UploadSetTaskId(j)
  \/ \E w \in Workers : Start(w)
  \/ \E w \in Workers : SetProcessing(w)
  \/ \E w \in Workers : GetDuration(w)
  \/ \E w \in Workers : GenerateThumbnail(w)
  \/ \E w \in Workers : WriteDone(w)
  \/ \E w \in Workers : WriteFailed(w)
  \/ \E w \in Workers : EndFailed(w)

Spec == Init /\ [][Next]_vars

\* ---- several jobs, with workers that keep running ------------------------
LiveJobs == 1..(NumJobs + 1)

InitLive ==
  /\ now = 0
  /\ rec = <<>>
  /\ upPc = [j \in LiveJobs |-> "idle"]
  /\ queue = {}
  /\ wk = [w \in Workers |-> IdleWorker]
  /\ execs = [j \in LiveJobs |-> 0]
  /\ durOk = [j \in LiveJobs |-> FALSE]
  /\ outcome = [j \in LiveJobs |-> "none"]
  /\ lastErr = [j \in LiveJobs |-> "none"]
  /\ crashed = [j \in LiveJobs |-> FALSE]
  /\ taskIdSaw = [j \in LiveJobs |-> FALSE]
  /\ fmtIn = 0
  /\ fmtOut = "none"

\* upload_video from insert_one to its return, as one step
UploadVideo(j) ==
  /\ upPc[j] = "idle"
  /\ \A i \in LiveJobs : i < j => upPc[i] # "idle"
  /\ rec' = UpdateOne(InsertOne(rec, j, InitialDoc), j, TaskIdUpdate(j))
  /\ queue' = queue \cup {[job |-> j, retries |-> 0, eta |-> now]}
  /\ upPc' = [upPc EXCEPT ![j] = "returned"]
  /\ UNCHANGED <<now, wk, execs, durOk, outcome, lastErr, crashed, taskIdSaw,
                 fmtIn, fmtOut>>

WorkerStep ==
  \/ \E w \in Workers : Start(w)
  \/ \E w \in Workers : SetProcessing(w)
  \/ \E w \in Workers : GetDuration(w)
  \/ \E w \in Workers : GenerateThumbnail(w)
  \/ \E w \in Workers : WriteDone(w)
  \/ \E w \in Workers : WriteFailed(w)
  \/ \E w \in Workers : EndFailed(w)

NextLive ==
  \/ Tick
  \/ \E j \in LiveJobs : UploadVideo(j)
  \/ WorkerStep

\* the workers and the clock do not all stop while one of them can go on
SpecLive ==
  /\ InitLive
  /\ [][NextLive]_vars
  /\ WF_vars(Tick \/ WorkerStep)

\* ---- get_video_duration's conversion on its own ---------------------------
InitDuration ==
  /\ InitPipeline
  /\ fmtIn \in 0..MaxDurationTenths
  /\ fmtOut = "none"

\* duration_str of get_video_duration for duration_seconds = fmtIn / 10
FormatDuration ==
  /\ fmtOut = "none"
  /\ fmtOut' = DurationStr(fmtIn)
  /\ UNCHANGED <<now, rec, upPc, queue, wk, execs, durOk, outcome, lastErr, crashed,
                 taskIdSaw, fmtIn>>

NextDuration == FormatDuration

SpecDuration == InitDuration /\ [][NextDuration]_vars

\* ---- the environment beyond the two source files -----------------------
\* the worker process dies while it executes the task; the message was
\* acknowledged when the task started, so the broker holds nothing to redeliver
Crash(w) ==
  /\ wk[w].pc # "idle"
  /\ crashed' = [crashed EXCEPT ![wk[w].job] =
                   @ \/ wk[w].pc \in {"duration", "thumbnail", "write_done", "except"}]
  /\ wk' = [wk EXCEPT ![w] = IdleWorker]
  /\ UNCHANGED <<now, rec, upPc, queue, execs, durOk, outcome, lastErr, taskIdSaw, fmtIn, fmtOut>>

\* process_video is sent for a video_id that has no document
DelayNoRecord(j) ==
  /\ upPc[j] = "idle"
  /\ \A i \in Jobs : i < j => upPc[i] # "idle"
  /\ queue' = queue \cup {[job |-> j, retries |-> 0, eta |-> now]}
  /\ upPc' = [upPc EXCEPT ![j] = "no_upload"]
  /\ UNCHANGED <<now, rec, wk, execs, durOk, outcome, lastErr, crashed, taskIdSaw, fmtIn, fmtOut>>

\* ---- the record store refuses a write ------------------------------------
StoreError == "record store error"

\* the processing update raises: caught by the except branch
SetProcessingFails(w) ==
  /\ wk[w].pc = "set_processing"
  /\ wk' = [wk EXCEPT ![w].pc = "except", ![w].exc = StoreError]
  /\ UNCHANGED <<now, rec, upPc, queue, execs, durOk, outcome, lastErr, crashed,
                 taskIdSaw, fmtIn, fmtOut>>

\* the done update raises: caught by the except branch
WriteDoneFails(w) ==
  /\ wk[w].pc = "write_done"
  /\ wk' = [wk EXCEPT ![w].pc = "except", ![w].exc = StoreError]
  /\ UNCHANGED <<now, rec, upPc, queue, execs, durOk, outcome, lastErr, crashed,
                 taskIdSaw, fmtIn, fmtOut>>

\* the failed update raises inside the except branch: the exception leaves
\* process_video before self.retry is reached
WriteFailedFails(w) ==
  /\ wk[w].pc = "except"
  /\ outcome' = [outcome EXCEPT ![wk[w].job] = "unhandled"]
  /\ wk' = [wk EXCEPT ![w] = IdleWorker]
  /\ UNCHANGED <<now, rec, upPc, queue, execs, durOk, lastErr, crashed,
                 taskIdSaw, fmtIn, fmtOut>>

NextStore ==
  \/ Next
  \/ \E w \in Workers : SetProcessingFails(w)
  \/ \E w \in Workers : WriteDoneFails(w)
  \/ \E w \in Workers : WriteFailedFails(w)

SpecStore == Init /\ [][NextStore]_vars

NextCrash ==
  \/ Next
  \/ \E w \in Workers : Crash(w)

SpecCrash == Init /\ [][NextCrash]_vars

NextMissing ==
  \/ Next
  \/ \E j \in Jobs : DelayNoRecord(j)

SpecMissing == Init /\ [][NextMissing]_vars

\* ======================= the claims =====================================

\* C1 (as stated): a job whose duration extraction fails on every attempt is
\* executed exactly 3 times in total, and is then never delivered again.
C1_ThreeExecutions ==
  \A j \in Jobs : ~durOk[j] =>
    /\ execs[j] <= 3
    /\ outcome[j] = "exhausted" => execs[j] = 3

\* C1 (amended): a job whose duration extraction fails on every attempt is
\* executed exactly max_retries + 1 = 4 times (the first delivery and 3
\* redeliveries); it is not given up earlier, after the fourth failed
\* execution it is neither queued nor executed again, and its record stays
\* failed with the last error message.
C1_FourExecutions ==
  \A j \in Jobs : ~durOk[j] =>
    /\ execs[j] <= max_retries + 1
    /\ (execs[j] > 0 /\ ~Executing(j) /\ ~Queued(j)) => outcome[j] = "exhausted"
    /\ outcome[j] = "exhausted" =>
         /\ execs[j] = max_retries + 1
         /\ ~Queued(j) /\ ~Executing(j)
         /\ HasRecord(j)
         /\ rec[j].status = "failed"
         /\ rec[j].error_message = DurationError
         /\ rec[j].error_message = lastErr[j]

C1_Witness ==
  \E j \in Jobs :
    /\ ~durOk[j] /\ outcome[j] = "exhausted" /\ execs[j] = 4
    /\ HasRecord(j) /\ rec[j].status = "failed"

\* C2: whenever an execution of process_video has ended (returned or raised),
\* whatever the outcomes of duration extraction and thumbnail generation, the
\* record's status is done or failed, never pending or processing.
C2_TerminalAfterExecution ==
  \A j \in Jobs :
    (HasRecord(j) /\ execs[j] > 0 /\ ~Executing(j)) =>
      rec[j].status \in {"done", "failed"}

C2_Witness ==
  \E j \in Jobs :
    /\ HasRecord(j) /\ ~Executing(j) /\ outcome[j] = "retry"
    /\ durOk[j] /\ lastErr[j] = ThumbnailError
    /\ rec[j].status = "failed"

\* C3: for any one job at most one execution of process_video is in progress
\* at a time, and no message of the job is with the broker while the job is
\* being executed (a redelivery exists only after the execution has ended).
C3_OneExecutionPerJob ==
  \A j \in Jobs :
    /\ Cardinality({w \in Workers : wk[w].pc # "idle" /\ wk[w].job = j}) <= 1
    /\ Cardinality({m \in queue : m.job = j}) <= 1
    /\ Executing(j) => ~Queued(j)

C3_Witness ==
  \E w \in Workers : \E v \in Workers \ {w} :
    /\ wk[v].pc = "idle"
    /\ wk[w].pc = "duration" /\ wk[w].retries = 2
    /\ rec[wk[w].job].status = "processing"

\* C4: a job whose worker crashed after the record was set to processing and
\* before a terminal write is not lost: its message is still with the broker
\* for another delivery, or it is being executed again.
C4_CrashedJobRedelivered ==
  \A j \in Jobs : crashed[j] => (Queued(j) \/ Executing(j))

\* C5 (as stated): a record's status changes only along pending -> processing,
\* processing -> done, processing -> failed and failed -> pending.
C5_RearmedToPending ==
  [][\A j \in DOMAIN rec :
       rec'[j].status # rec[j].status =>
         <<rec[j].status, rec'[j].status>> \in
           {<<"pending", "processing">>, <<"processing", "done">>,
            <<"processing", "failed">>, <<"failed", "pending">>}]_vars

\* C5 (amended): a record's status changes only along pending -> processing,
\* processing -> done, processing -> failed and failed -> processing: a retried
\* job's record goes from failed straight to processing, it is never set back
\* to pending.
C5_StatusSteps ==
  [][\A j \in DOMAIN rec :
       rec'[j].status # rec[j].status =>
         <<rec[j].status, rec'[j].status>> \in
           {<<"pending", "processing">>, <<"processing", "done">>,
            <<"processing", "failed">>, <<"failed", "processing">>}]_vars

C5_Witness ==
  \E w \in Workers :
    /\ wk[w].pc # "idle" /\ wk[w].retries > 0
    /\ rec[wk[w].job].status = "processing"
    /\ rec[wk[w].job].error_message # Absent

\* C6: a failing attempt writes status failed together with error_message and
\* processed_time before its redelivery is scheduled, and from that write
\* until the redelivery starts a status query returns failed.
C6_FailedDuringBackoff ==
  \A j \in Jobs :
    /\ (\E w \in Workers : wk[w].pc = "retry" /\ wk[w].job = j) =>
         /\ GetVideoStatus(j) = "failed"
         /\ rec[j].error_message = lastErr[j]
         /\ rec[j].processed_time # Absent
    /\ \A m \in queue : (m.job = j /\ m.retries > 0) =>
         /\ GetVideoStatus(j) = "failed"
         /\ rec[j].error_message = lastErr[j]
         /\ rec[j].processed_time # Absent
         /\ rec[j].processed_time \in {IsoFormat(t) : t \in 0..(m.eta - countdown)}
    /\ (HasRecord(j) /\ rec[j].status = "failed") =>
         (rec[j].error_message # Absent /\ rec[j].processed_time # Absent)

C6_Witness ==
  \E m \in queue :
    /\ m.retries > 0 /\ m.eta > now
    /\ GetVideoStatus(m.job) = "failed"
    /\ rec[m.job].error_message = DurationError

\* C7: a record with status done has duration, thumbnail_filename and
\* processed_time set, and the done write is made only by an attempt in which
\* both duration extraction and thumbnail generation succeeded.
C7_DoneHasResults ==
  /\ \A j \in DOMAIN rec :
       rec[j].status = "done" =>
         /\ rec[j].duration \in {DurationStr(d) : d \in Durations}
         /\ rec[j].thumbnail_filename = ThumbnailFilename(j)
         /\ rec[j].processed_time # Absent
         /\ outcome[j] = "succeeded"
  /\ \A w \in Workers :
       wk[w].pc = "write_done" => (wk[w].dur \in Durations /\ wk[w].thumb)
  /\ \A j \in Jobs :
       outcome[j] = "succeeded" => (HasRecord(j) => rec[j].status = "done")

C7_Witness ==
  \E j \in DOMAIN rec :
    /\ rec[j].status = "done" /\ rec[j].duration = "01:02:05"
    /\ rec[j].thumbnail_filename = "thumb_1.jpg"
    /\ rec[j].processed_time = "0"

\* C8: a record whose status is pending, processing or failed has a null
\* duration and no thumbnail_filename, and a record has an error_message only
\* if some attempt wrote status failed for it.
C8_ResultsOnlyWhenDone ==
  \A j \in DOMAIN rec :
    /\ rec[j].status \in {"pending", "processing", "failed"} =>
         (rec[j].duration = None /\ rec[j].thumbnail_filename = Absent)
    /\ rec[j].error_message # Absent => lastErr[j] # "none"

C8_Witness ==
  \E j \in DOMAIN rec :
    /\ rec[j].status = "failed" /\ rec[j].error_message = ThumbnailError
    /\ rec[j].duration = None /\ rec[j].thumbnail_filename = Absent

\* C9: an execution of process_video whose record does not exist never gets
\* to invoke duration extraction or thumbnail generation.
C9_MissingRecordAborts ==
  \A w \in Workers :
    (wk[w].pc # "idle" /\ ~HasRecord(wk[w].job)) =>
      /\ wk[w].pc \in {"set_processing", "duration", "except", "retry"}
      /\ wk[w].exc \notin {DurationError, ThumbnailError}

\* C10: once the record is inserted, no step of upload_video changes status,
\* duration, thumbnail_filename, processed_time or error_message: the task_id
\* update leaves them as the worker last wrote them.
C10_TaskIdUpdateKeepsWorkerFields ==
  [][\A j \in DOMAIN rec :
       upPc'[j] # upPc[j] =>
         \A f \in {"status", "duration", "thumbnail_filename",
                   "processed_time", "error_message"} :
           rec'[j][f] = rec[j][f]]_vars

C10_Witness ==
  \E j \in DOMAIN rec :
    /\ upPc[j] = "returned" /\ taskIdSaw[j]
    /\ rec[j].task_id = TaskId(j)
    /\ rec[j].status = "done"

\* C11: when an attempt fails and a redelivery succeeds, the record shows
\* failed after the failed attempt and done after the successful one, and the
\* done write replaces the processed_time of the failed attempt by its own,
\* later, time.
C11_FailedThenDone ==
  /\ [](\A j \in Jobs : HasRecord(j) =>
          /\ (outcome[j] = "retry" /\ ~Executing(j)) =>
               (rec[j].status = "failed" /\ rec[j].processed_time # Absent)
          /\ outcome[j] = "succeeded" => rec[j].status = "done")
  /\ [][\A j \in DOMAIN rec :
          (rec[j].status # "done" /\ rec'[j].status = "done"
             /\ rec[j].processed_time # Absent) =>
            /\ rec'[j].processed_time = IsoFormat(now)
            /\ rec[j].processed_time \in {IsoFormat(t) : t \in 0..(now - countdown)}]_vars

C11_Witness ==
  \E j \in DOMAIN rec :
    /\ execs[j] = 2 /\ outcome[j] = "succeeded"
    /\ rec[j].status = "done" /\ lastErr[j] = ThumbnailError
    /\ rec[j].processed_time = "60"

\* C17: the record is inserted with status pending before the job is sent:
\* a queued or running job has its record, the first execution finds it with
\* status pending, and after upload_video returned a status query finds it.
C17_RecordBeforeJob ==
  /\ \A j \in Jobs : (Queued(j) \/ Executing(j)) => HasRecord(j)
  /\ \A w \in Workers :
       (wk[w].pc = "set_processing" /\ wk[w].retries = 0) =>
         GetVideoStatus(wk[w].job) = "pending"
  /\ \A j \in Jobs : upPc[j] \in {"enqueued", "returned"} => GetVideoStatus(j) # "404"

C17_Witness ==
  \E w \in Workers :
    /\ wk[w].pc = "set_processing" /\ wk[w].retries = 0
    /\ upPc[wk[w].job] = "enqueued"
    /\ GetVideoStatus(wk[w].job) = "pending"

\* C18: the processing write and the done write leave error_message as the
\* last failed attempt wrote it: a record that is done after a failed attempt
\* still carries that attempt's error_message.
C18_ErrorMessageKept ==
  \A j \in DOMAIN rec :
    lastErr[j] # "none" => rec[j].error_message = lastErr[j]

C18_Witness ==
  \E j \in DOMAIN rec :
    /\ rec[j].status = "done" /\ execs[j] > 1
    /\ rec[j].error_message = DurationError

\* C15: every redelivery is requested for countdown = 60 seconds after the
\* moment the failed execution ends, whatever the number of retries made, and
\* a worker starts a message only when its ETA has come: a redelivery starts
\* at least 60 seconds after the previous execution of the job ended.
C15_FixedBackoff ==
  [][/\ \A m \in queue' \ queue :
          m.retries > 0 => m.eta = now + countdown
     /\ \A m \in queue \ queue' :
          /\ m.eta <= now
          /\ m.retries > 0 =>
               rec[m.job].processed_time \in {IsoFormat(t) : t \in 0..(now - countdown)}]_vars

C15_Witness ==
  \E w \in Workers :
    /\ wk[w].pc = "set_processing" /\ wk[w].retries = 3
    /\ now = 180
    /\ rec[wk[w].job].processed_time = "120"

\* C16: within one execution generate_thumbnail is invoked only after
\* get_video_duration returned in that execution, with 10% of the duration it
\* returned; when get_video_duration raises, generate_thumbnail is not invoked.
C16_ThumbnailAfterDuration ==
  \A w \in Workers :
    /\ wk[w].pc \in {"idle", "set_processing", "duration"} =>
         (wk[w].dur = -1 /\ wk[w].ss = -1)
    /\ wk[w].pc \in {"thumbnail", "write_done"} => wk[w].dur \in Durations
    /\ wk[w].exc = DurationError => (wk[w].dur = -1 /\ wk[w].ss = -1)
    /\ wk[w].ss # -1 =>
         /\ wk[w].dur \in Durations
         /\ 10 * wk[w].ss = 100 * wk[w].dur
    /\ wk[w].pc = "write_done" => wk[w].ss # -1

C16_Witness ==
  \E w \in Workers :
    /\ wk[w].retries > 0 /\ durOk[wk[w].job] /\ lastErr[wk[w].job] = ThumbnailError
    /\ wk[w].pc = "write_done"
    /\ wk[w].dur = 1200 /\ wk[w].ss = 12000

\* C13: for a duration of fmtIn tenths of a second the display string is
\* HH:MM:SS where HH, MM < 60 and SS < 60 are the whole hours, minutes and
\* seconds contained in it, each as two digits: the fraction is dropped and
\* never rounds a field up (3725.9 s gives 01:02:05).
TwoDigits(n) ==
  LET digit == <<"0", "1", "2", "3", "4", "5", "6", "7", "8", "9">>
  IN digit[(n \div 10) + 1] \o digit[(n % 10) + 1]

C13_DisplayTruncates ==
  fmtOut # "none" =>
    \E h \in 0..(MaxDurationTenths \div 36000) : \E m \in 0..59 :
      /\ 10 * (3600 * h + 60 * m) <= fmtIn
      /\ fmtIn < 10 * (3600 * h + 60 * (m + 1))
      /\ \E sec \in 0..59 :
           /\ 10 * (3600 * h + 60 * m + sec) <= fmtIn
           /\ fmtIn < 10 * (3600 * h + 60 * m + sec + 1)
           /\ fmtOut = TwoDigits(h) \o ":" \o TwoDigits(m) \o ":" \o TwoDigits(sec)

C13_Witness == fmtIn = 37259 /\ fmtOut = "01:02:05"

\* C14: an execution that ended after a record-store update failed in it (the
\* processing, the done or the failed write) has its redelivery queued as long
\* as attempts remain.
C14_StoreFailureRedelivered ==
  \A j \in Jobs :
    (/\ ~Executing(j)
     /\ execs[j] \in 1..max_retries
     /\ \/ outcome[j] = "unhandled"
        \/ (outcome[j] = "retry" /\ lastErr[j] = StoreError)) =>
      Queued(j)

\* C12: a failure in one job never stops job processing: every queued message
\* whose ETA lies within the modelled time is eventually executed by a worker,
\* also after other jobs failed and while they wait for their backoff.
C12_QueuedJobsExecuted ==
  \A j \in LiveJobs :
    (\E m \in queue : m.job = j /\ m.eta <= MaxTime) ~> Executing(j)

C12_Witness ==
  \E j \in LiveJobs : \E i \in LiveJobs \ {j} :
    /\ \E m \in queue : m.job = i /\ m.retries > 0 /\ m.eta > now
    /\ lastErr[i] = DurationError
    /\ execs[j] = 1 /\ Executing(j)

====
